---- MODULE Spec2Model ----
(***************************************************************************)
(* Model of src/src/UploadStream.js: the resumable chunked upload session  *)
(* (class Upload), its response classifier checkResponseStatus and the     *)
(* transport wrapper safePut.                                              *)
(*                                                                         *)
(* JavaScript runs the session on one thread.  An action of this model is  *)
(* one run-to-completion step: a call made by the caller (uploadChunk,     *)
(* pause, unpause, cancel, getRemoteResumeIndex), the resumption of a      *)
(* continuation released by unpause (a microtask), the arrival of a        *)
(* transport answer, or the expiry of a retry timer (macrotasks).          *)
(***************************************************************************)
EXTENDS Integers, Sequences, FiniteSets, TLC

VARIABLES
    args,      \* arguments handed to the constructor: (args, allowSmallChunks)
    ctor,      \* outcome of the constructor: "new", "ok" or the error thrown
    upload,    \* the Upload object (this): paused, unpauseHandlers, spark, opts
    store,     \* the checksum store of opts.id (this.meta): index -> checksum
    calls,     \* the uploadChunk invocations made so far, by order of call
    released,  \* continuations resolved by unpause() that have not resumed yet
    cancelled, \* cancel() was called and no chunk was recorded since
    probe,     \* the getRemoteResumeIndex invocation
    cls        \* one application of checkResponseStatus on its own

vars == <<args, ctor, upload, store, cancelled, calls, released, probe, cls>>

----------------------------------------------------------------------------
(* Program constants *)

MIN_CHUNK_SIZE == 262144

DefaultBackoffRetryLimit == 5

(* Bounds of the model *)

MaxCalls == 2

MaxRetry == 1

Calls == 1..MaxCalls

----------------------------------------------------------------------------
(* JavaScript helpers *)

\* a % n of JavaScript for n > 0: the remainder takes the sign of the dividend
JsRem(a, n) == IF a >= 0 THEN a % n ELSE 0 - ((0 - a) % n)

\* Math.floor(a / b); Infinity and NaN (b = 0) are the value NotFinite
NotFinite == 0 - 1000000007

FloorDiv(a, b) ==
    IF b > 0 THEN a \div b
    ELSE IF b < 0 THEN (0 - a) \div (0 - b)
    ELSE NotFinite

\* An optional value is <<>> (undefined, null) or <<v>>
Opt(o, default) == IF o = <<>> THEN default ELSE o[1]

\* !v for an optional string: null, undefined and "" are falsy
Falsy(o) == o = <<>> \/ o = <<"">>

\* arr.indexOf(x) > -1
InArray(x, arr) == \E i \in DOMAIN arr : arr[i] = x

----------------------------------------------------------------------------
(* Response Classifier: checkResponseStatus(res, opts, allowed) *)

checkResponseStatus_NoAllowList(status, allowed) ==
    CASE status = 308 -> [kind |-> "UploadIncompleteError"]
      [] status \in {200, 201} -> [kind |-> "FileAlreadyUploadedError"]
      [] status = 404 -> [kind |-> "UrlNotFoundError"]
      [] status \in {500, 502, 503, 504} ->
             [kind |-> "UploadFailedError", status |-> status]
      [] OTHER -> [kind |-> "UnknownResponseError", status |-> status]

checkResponseStatus(status, allowed) ==
    IF InArray(status, allowed) THEN [kind |-> "ok"]
    ELSE CASE status = 308 -> [kind |-> "UploadIncompleteError"]
           [] status \in {200, 201} -> [kind |-> "FileAlreadyUploadedError"]
           [] status = 404 -> [kind |-> "UrlNotFoundError"]
           [] status \in {500, 502, 503, 504} ->
                  [kind |-> "UploadFailedError", status |-> status]
           [] OTHER -> [kind |-> "UnknownResponseError", status |-> status]

\* the allow-lists of the two callers
ChunkAllowed == <<200, 201, 308>>

ProbeAllowed == <<308>>

----------------------------------------------------------------------------
(* Constructor *)

NoUpload == [exists |-> FALSE]

EmptyStore == [i \in {} |-> <<>>]

DefaultOpts(a) ==
    [chunkSize |-> Opt(a.chunkSize, MIN_CHUNK_SIZE),
     id |-> a.id,
     url |-> a.url,
     backoffRetryLimit |-> Opt(a.backoffRetryLimit, DefaultBackoffRetryLimit)]

InvalidChunkSize_NoZeroTest(chunkSize, allowSmallChunks) ==
    JsRem(chunkSize, MIN_CHUNK_SIZE) # 0 /\ ~allowSmallChunks

InvalidChunkSize(chunkSize, allowSmallChunks) ==
    (JsRem(chunkSize, MIN_CHUNK_SIZE) # 0 \/ chunkSize = 0) /\ ~allowSmallChunks

\* new Upload(args, allowSmallChunks): the error thrown, or the object built
Constructor(a) ==
    LET opts == DefaultOpts(a) IN
    IF InvalidChunkSize(opts.chunkSize, a.allowSmallChunks)
      THEN [error |-> "InvalidChunkSizeError", this |-> NoUpload]
    ELSE IF Falsy(opts.id)
      THEN [error |-> "MissingOptionsError", this |-> NoUpload]
    ELSE IF Falsy(opts.url)
      THEN [error |-> "MissingOptionsError", this |-> NoUpload]
    ELSE [error |-> "ok",
          this |-> [exists |-> TRUE,
                    paused |-> FALSE,
                    unpauseHandlers |-> <<>>,
                    spark |-> <<>>,
                    opts |-> opts]]

----------------------------------------------------------------------------
(* External collaborators of the session *)

\* FileProcessor.getChecksum(spark, chunk): folds the chunk into the running
\* digest and returns the digest of everything folded so far.  A chunk is
\* named by the call that carries it; the digest is the sequence folded.
getChecksum(spark, chunk) ==
    [spark |-> Append(spark, chunk), checksum |-> Append(spark, chunk)]

\* FileMeta.addChecksum(index, checksum)
addChecksum(st, index, checksum) ==
    [i \in (DOMAIN st) \cup {index} |-> IF i = index THEN checksum ELSE st[i]]

\* FileMeta.reset()
reset(st) == EmptyStore

\* What the transport does with one PUT: it answers with a response, rejects
\* with the response object (a status the transport does not accept), or
\* rejects with an Error.
Statuses == {200, 201, 308, 400, 404, 418, 500, 502, 503, 504}

NoRange == [form |-> "absent"]

ChunkOutcomes ==
    {[how |-> "response", status |-> s, range |-> NoRange] : s \in Statuses}
    \cup {[how |-> "rejectResponse", status |-> s, range |-> NoRange] :
             s \in Statuses \ {200, 201}}
    \cup {[how |-> "rejectError", status |-> 0, range |-> NoRange]}

\* async function safePut(): an Error is rethrown, any other rejection value
\* is returned as if it were the response
safePut(o) ==
    IF o.how = "rejectError"
      THEN [threw |-> TRUE, status |-> 0, range |-> NoRange]
      ELSE [threw |-> FALSE, status |-> o.status, range |-> o.range]

----------------------------------------------------------------------------
(* uploadChunk(index, chunk) *)

IdleCall ==
    [pc |-> "idle", index |-> 0, len |-> 0, gated |-> FALSE, attempts |-> 0,
     accepted |-> FALSE, checksum |-> <<>>, error |-> "none", events |-> <<>>]

\* the next invocation of uploadChunk is call c
NextCall(c) ==
    /\ calls[c].pc = "idle"
    /\ \A d \in Calls : d < c => calls[d].pc # "idle"

\* lines 73-103 up to the first PUT: fold the chunk, then start attempt 1
StartUpload(c, call) ==
    LET f == getChecksum(upload.spark, c) IN
    /\ upload' = [upload EXCEPT !.spark = f.spark]
    /\ calls' = [calls EXCEPT ![c] =
           [call EXCEPT !.pc = "inflight", !.attempts = 1,
                        !.checksum = f.checksum]]

waitForUnpause_NoPush(c, call) ==
    /\ upload' = upload
    /\ calls' = [calls EXCEPT ![c] = [call EXCEPT !.pc = "waiting"]]

\* this.waitForUnpause(): push the continuation and suspend
waitForUnpause(c, call) ==
    /\ upload' = [upload EXCEPT !.unpauseHandlers = Append(@, c)]
    /\ calls' = [calls EXCEPT ![c] = [call EXCEPT !.pc = "waiting"]]

uploadChunk_NoGate(c, index, len) ==
    /\ ctor = "ok"
    /\ NextCall(c)
    /\ StartUpload(c, [calls[c] EXCEPT !.index = index, !.len = len,
                                       !.gated = upload.paused])
    /\ UNCHANGED <<args, ctor, store, cancelled, released, probe, cls>>

uploadChunk(c, index, len) ==
    /\ ctor = "ok"
    /\ NextCall(c)
    /\ LET call == [calls[c] EXCEPT !.index = index, !.len = len,
                                    !.gated = upload.paused] IN
       IF upload.paused
         THEN waitForUnpause(c, call)
         ELSE StartUpload(c, call)
    /\ UNCHANGED <<args, ctor, store, cancelled, released, probe, cls>>

\* the continuation of `await this.waitForUnpause()`: microtasks run in the
\* order in which unpause() resolved them
Resume(c) ==
    /\ released # <<>>
    /\ c = Head(released)
    /\ released' = Tail(released)
    /\ StartUpload(c, calls[c])
    /\ UNCHANGED <<args, ctor, store, cancelled, probe, cls>>

\* one attempt of the function given to retry(): safePut, then the classifier
Attempt(o) ==
    LET r == safePut(o) IN
    IF r.threw THEN [kind |-> "TransportError"]
    ELSE checkResponseStatus(r.status, ChunkAllowed)

\* lines 104-106: catch (err) { throw new UploadUnableToRecoverError() }
CatchRetry_Rethrow(err) == err.kind

CatchRetry(err) == "UploadUnableToRecoverError"

\* retry(fn, {retries}): after a failed attempt, is another one scheduled?
RetryAgain_OffByOne(attempts, retries) == attempts < retries

RetryAgain(attempts, retries) == attempts <= retries

\* lines 108-115: after retry() resolved
ChunkUploaded_CallbackFirst(c, call) ==
    LET end == call.index * upload.opts.chunkSize + call.len - 1
        ev == [uploadedBytes |-> end + 1, chunkIndex |-> call.index,
               chunkLength |-> call.len,
               persisted |-> call.index \in DOMAIN store
                             /\ store[call.index] = call.checksum] IN
    /\ store' = addChecksum(store, call.index, call.checksum)
    /\ cancelled' = FALSE
    /\ calls' = [calls EXCEPT ![c] =
           [call EXCEPT !.pc = "resolved", !.events = Append(@, ev)]]

ChunkUploaded(c, call) ==
    LET end == call.index * upload.opts.chunkSize + call.len - 1
        st == addChecksum(store, call.index, call.checksum)
        ev == [uploadedBytes |-> end + 1, chunkIndex |-> call.index,
               chunkLength |-> call.len,
               persisted |-> call.index \in DOMAIN st
                             /\ st[call.index] = call.checksum] IN
    /\ store' = st
    /\ cancelled' = FALSE
    /\ calls' = [calls EXCEPT ![c] =
           [call EXCEPT !.pc = "resolved", !.events = Append(@, ev)]]

\* the answer carries one of the statuses uploadChunk accepts (recorded with
\* the call, for the properties)
AcceptedAnswer(o) == o.how # "rejectError" /\ o.status \in {200, 201, 308}

PutResponse_Bail404(c, o) ==
    /\ calls[c].pc = "inflight"
    /\ released = <<>>
    /\ LET res == Attempt(o)
           call == [calls[c] EXCEPT !.accepted = AcceptedAnswer(o)] IN
       IF res.kind = "ok"
         THEN ChunkUploaded(c, call)
         ELSE /\ UNCHANGED <<store, cancelled>>
              /\ IF /\ res.kind # "UrlNotFoundError"
                    /\ RetryAgain(call.attempts, upload.opts.backoffRetryLimit)
                   THEN calls' = [calls EXCEPT ![c] =
                            [call EXCEPT !.pc = "backoff"]]
                   ELSE calls' = [calls EXCEPT ![c] =
                            [call EXCEPT !.pc = "rejected",
                                         !.error = CatchRetry(res)]]
    /\ UNCHANGED <<args, ctor, upload, released, probe, cls>>

PutResponse_RecordOnReject(c, o) ==
    /\ calls[c].pc = "inflight"
    /\ released = <<>>
    /\ LET res == Attempt(o)
           call == [calls[c] EXCEPT !.accepted = AcceptedAnswer(o)] IN
       IF res.kind = "ok"
         THEN ChunkUploaded(c, call)
         ELSE IF RetryAgain(call.attempts, upload.opts.backoffRetryLimit)
           THEN /\ UNCHANGED <<store, cancelled>>
                /\ calls' = [calls EXCEPT ![c] = [call EXCEPT !.pc = "backoff"]]
           ELSE /\ store' = addChecksum(store, call.index, call.checksum)
                /\ cancelled' = FALSE
                /\ calls' = [calls EXCEPT ![c] =
                       [call EXCEPT !.pc = "rejected",
                                    !.error = CatchRetry(res)]]
    /\ UNCHANGED <<args, ctor, upload, released, probe, cls>>

\* the transport settles the PUT of call c with outcome o
PutResponse(c, o) ==
    /\ calls[c].pc = "inflight"
    /\ released = <<>>
    /\ LET res == Attempt(o)
           call == [calls[c] EXCEPT !.accepted = AcceptedAnswer(o)] IN
       IF res.kind = "ok"
         THEN ChunkUploaded(c, call)
         ELSE /\ UNCHANGED <<store, cancelled>>
              /\ IF RetryAgain(call.attempts, upload.opts.backoffRetryLimit)
                   THEN calls' = [calls EXCEPT ![c] =
                            [call EXCEPT !.pc = "backoff"]]
                   ELSE calls' = [calls EXCEPT ![c] =
                            [call EXCEPT !.pc = "rejected",
                                         !.error = CatchRetry(res)]]
    /\ UNCHANGED <<args, ctor, upload, released, probe, cls>>

RetryTimer_Refold(c) ==
    /\ calls[c].pc = "backoff"
    /\ released = <<>>
    /\ LET f == getChecksum(upload.spark, c) IN
       /\ upload' = [upload EXCEPT !.spark = f.spark]
       /\ calls' = [calls EXCEPT ![c].pc = "inflight", ![c].attempts = @ + 1,
                                 ![c].checksum = f.checksum]
    /\ UNCHANGED <<args, ctor, store, cancelled, released, probe, cls>>

\* the backoff delay elapsed: retry() runs the next attempt, which PUTs again
RetryTimer(c) ==
    /\ calls[c].pc = "backoff"
    /\ released = <<>>
    /\ calls' = [calls EXCEPT ![c].pc = "inflight", ![c].attempts = @ + 1]
    /\ UNCHANGED <<args, ctor, upload, store, cancelled, released, probe, cls>>

----------------------------------------------------------------------------
(* pause(), unpause(), cancel() *)

pause_Toggle ==
    /\ ctor = "ok"
    /\ upload' = [upload EXCEPT !.paused = ~@]
    /\ UNCHANGED <<args, ctor, store, cancelled, calls, released, probe, cls>>

pause ==
    /\ ctor = "ok"
    /\ upload' = [upload EXCEPT !.paused = TRUE]
    /\ UNCHANGED <<args, ctor, store, cancelled, calls, released, probe, cls>>

unpause_NoClear ==
    /\ ctor = "ok"
    /\ LET hs == upload.unpauseHandlers IN
       /\ upload' = [upload EXCEPT !.paused = FALSE]
       /\ released' = released \o hs
       /\ calls' = [c \in Calls |->
              IF InArray(c, hs) THEN [calls[c] EXCEPT !.pc = "released"]
              ELSE calls[c]]
    /\ UNCHANGED <<args, ctor, store, cancelled, probe, cls>>

unpause ==
    /\ ctor = "ok"
    /\ LET hs == upload.unpauseHandlers IN
       /\ upload' = [upload EXCEPT !.paused = FALSE, !.unpauseHandlers = <<>>]
       /\ released' = released \o hs
       /\ calls' = [c \in Calls |->
              IF InArray(c, hs) THEN [calls[c] EXCEPT !.pc = "released"]
              ELSE calls[c]]
    /\ UNCHANGED <<args, ctor, store, cancelled, probe, cls>>

cancel_NoReset ==
    /\ ctor = "ok"
    /\ cancelled' = TRUE
    /\ UNCHANGED <<args, ctor, upload, store, calls, released, probe, cls>>

cancel_Abort ==
    /\ ctor = "ok"
    /\ store' = reset(store)
    /\ cancelled' = TRUE
    /\ calls' = [c \in Calls |->
           IF calls[c].pc \in {"inflight", "backoff"}
             THEN [calls[c] EXCEPT !.pc = "rejected",
                                   !.error = "UploadUnableToRecoverError"]
             ELSE calls[c]]
    /\ UNCHANGED <<args, ctor, upload, released, probe, cls>>

cancel ==
    /\ ctor = "ok"
    /\ store' = reset(store)
    /\ cancelled' = TRUE
    /\ UNCHANGED <<args, ctor, upload, calls, released, probe, cls>>

----------------------------------------------------------------------------
(* getRemoteResumeIndex() *)

Digit == {"0", "1", "2", "3", "4", "5", "6", "7", "8", "9"}

DigitOf(n) ==
    CASE n = 0 -> "0" [] n = 1 -> "1" [] n = 2 -> "2" [] n = 3 -> "3"
      [] n = 4 -> "4" [] n = 5 -> "5" [] n = 6 -> "6" [] n = 7 -> "7"
      [] n = 8 -> "8" [] n = 9 -> "9"

ValueOf(d) ==
    CASE d = "0" -> 0 [] d = "1" -> 1 [] d = "2" -> 2 [] d = "3" -> 3
      [] d = "4" -> 4 [] d = "5" -> 5 [] d = "6" -> 6 [] d = "7" -> 7
      [] d = "8" -> 8 [] d = "9" -> 9

\* the decimal text of n >= 0, as the server writes it
RECURSIVE Decimal(_)
Decimal(n) == IF n < 10 THEN <<DigitOf(n)>>
              ELSE Append(Decimal(n \div 10), DigitOf(n % 10))

\* the Range response header of an answer, as text (<<>> : no such header)
HeaderText(range) ==
    CASE range.form = "absent" -> <<>>
      [] range.form = "garbage" -> <<<<"b", "y", "t", "e", "s", "=">>>>
      [] range.form = "bytes" ->
           <<<<"b", "y", "t", "e", "s", "=">> \o Decimal(range.start)
               \o <<"-">> \o Decimal(range.end)>>

\* parseInt of a run of decimal digits
RECURSIVE parseInt(_)
parseInt(ds) ==
    IF ds = <<>> THEN 0
    ELSE 10 * parseInt(SubSeq(ds, 1, Len(ds) - 1)) + ValueOf(ds[Len(ds)])

\* the length of the run of digits that ends the text
RECURSIVE TrailingDigits(_)
TrailingDigits(t) ==
    IF t = <<>> \/ t[Len(t)] \notin Digit THEN 0
    ELSE 1 + TrailingDigits(SubSeq(t, 1, Len(t) - 1))

\* header.match(/(\d+?)-(\d+?)$/): <<>> when there is no match (null), else
\* <<range[2]>>: the text must end with digits, "-", digits
matchRange(t) ==
    LET n == Len(t)
        k == TrailingDigits(t) IN
    IF k >= 1 /\ n - k >= 2 /\ t[n - k] = "-" /\ t[n - k - 1] \in Digit
      THEN <<SubSeq(t, n - k + 1, n)>>
      ELSE <<>>

\* lines 129-133 on a response that passed the classifier
ResumeIndex(range, chunkSize) ==
    LET header == HeaderText(range) IN
    IF header = <<>> THEN [threw |-> TRUE, value |-> 0]
    ELSE LET m == matchRange(header[1]) IN
         IF m = <<>> THEN [threw |-> TRUE, value |-> 0]
         ELSE LET bytesReceived == parseInt(m[1]) + 1 IN
              [threw |-> FALSE, value |-> FloorDiv(bytesReceived, chunkSize)]

RangeEnds == {0, 3, MIN_CHUNK_SIZE - 1, MIN_CHUNK_SIZE, 2 * MIN_CHUNK_SIZE - 1}

Ranges ==
    {NoRange, [form |-> "garbage"]}
    \cup {[form |-> "bytes", start |-> 0, end |-> e] : e \in RangeEnds}

ProbeOutcomes ==
    {[how |-> h, status |-> s, range |-> r] :
        h \in {"response", "rejectResponse"}, s \in Statuses, r \in Ranges}
    \cup {[how |-> "rejectError", status |-> 0, range |-> NoRange]}

\* whilePaused records whether the session was paused when the probe was
\* called (for the properties)
IdleProbe ==
    [pc |-> "idle", puts |-> 0, answer |-> <<>>, value |-> 0, error |-> "none",
     whilePaused |-> FALSE]

getRemoteResumeIndex_Gated ==
    /\ ctor = "ok"
    /\ probe.pc \notin {"inflight", "waiting"}
    /\ IF upload.paused
         THEN probe' = [IdleProbe EXCEPT !.pc = "waiting", !.whilePaused = TRUE]
         ELSE probe' = [IdleProbe EXCEPT !.pc = "inflight", !.puts = 1]
    /\ UNCHANGED <<args, ctor, upload, store, cancelled, calls, released, cls>>

\* the call: the probe PUT is issued at once, whatever the pause flag
getRemoteResumeIndex ==
    /\ ctor = "ok"
    /\ probe.pc # "inflight"
    /\ probe' = [IdleProbe EXCEPT !.pc = "inflight", !.puts = 1,
                                  !.whilePaused = upload.paused]
    /\ UNCHANGED <<args, ctor, upload, store, cancelled, calls, released, cls>>

\* the probe is not wrapped in retry(): what its only attempt throws is what
\* the caller gets
ProbeFailed_Retry(err) ==
    IF probe.puts <= upload.opts.backoffRetryLimit
      THEN [probe EXCEPT !.puts = @ + 1]
      ELSE [probe EXCEPT !.pc = "rejected", !.error = "UploadUnableToRecoverError"]

ProbeFailed(err) == [probe EXCEPT !.pc = "rejected", !.error = err.kind]

\* the transport settles the probe PUT with outcome o
ProbeResponse(o) ==
    /\ probe.pc = "inflight"
    /\ released = <<>>
    /\ LET r == safePut(o)
           res == IF r.threw THEN [kind |-> "TransportError"]
                  ELSE checkResponseStatus(r.status, ProbeAllowed) IN
       IF res.kind # "ok"
         THEN probe' = [ProbeFailed(res) EXCEPT !.answer = <<o>>]
         ELSE LET ri == ResumeIndex(r.range, upload.opts.chunkSize) IN
              IF ri.threw
                THEN probe' = [probe EXCEPT !.pc = "rejected",
                                            !.error = "TypeError",
                                            !.answer = <<o>>]
                ELSE probe' = [probe EXCEPT !.pc = "resolved",
                                            !.value = ri.value,
                                            !.answer = <<o>>]
    /\ UNCHANGED <<args, ctor, upload, store, cancelled, calls, released, cls>>

----------------------------------------------------------------------------
(* The constructor and the classifier on their own *)

IdleCls == [pc |-> "idle"]

Construct ==
    /\ ctor = "new"
    /\ LET r == Constructor(args) IN
       /\ ctor' = r.error
       /\ upload' = r.this
    /\ UNCHANGED <<args, store, cancelled, calls, released, probe, cls>>

Classify ==
    /\ cls.pc = "input"
    /\ cls' = [cls EXCEPT !.pc = "done",
                          !.result = checkResponseStatus(cls.status, cls.allowed)]
    /\ UNCHANGED <<args, ctor, upload, store, cancelled, calls, released, probe>>

----------------------------------------------------------------------------
(* Inputs *)

ChunkSizes ==
    {<<>>, <<0>>, <<1>>, <<2>>, <<MIN_CHUNK_SIZE>>, <<MIN_CHUNK_SIZE + 1>>,
     <<2 * MIN_CHUNK_SIZE>>, <<0 - MIN_CHUNK_SIZE>>, <<0 - 3>>}

CtorArgs ==
    [chunkSize : ChunkSizes,
     id : {<<>>, <<"">>, <<"x">>},
     url : {<<>>, <<"">>, <<"http://h">>},
     backoffRetryLimit : {<<>>},
     allowSmallChunks : BOOLEAN]

\* the chunks the caller uploads: a first chunk and a shorter second one
Chunks == {[index |-> 0, len |-> 2], [index |-> 1, len |-> 1]}

\* the sessions whose operations are explored
SessionArgs ==
    [chunkSize : {<<>>},
     id : {<<"x">>},
     url : {<<"http://h">>},
     backoffRetryLimit : {<<n>> : n \in 0..MaxRetry},
     allowSmallChunks : {FALSE}]

ProbeArgs ==
    [chunkSize : ChunkSizes,
     id : {<<"x">>},
     url : {<<"http://h">>},
     backoffRetryLimit : {<<>>},
     allowSmallChunks : BOOLEAN]

AllowLists ==
    {<<>>, ProbeAllowed, ChunkAllowed, <<200>>, <<201, 200>>, <<404>>,
     <<500, 404>>, <<418>>, <<308, 503>>}

----------------------------------------------------------------------------
(* Specifications *)

\* the state right after `new Upload(a, allowSmallChunks)` returned
Constructed(A) ==
    /\ args \in A
    /\ Constructor(args).error = "ok"
    /\ ctor = "ok"
    /\ upload = Constructor(args).this
    /\ store = EmptyStore
    /\ cancelled = FALSE
    /\ calls = [c \in Calls |-> IdleCall]
    /\ released = <<>>
    /\ probe = IdleProbe
    /\ cls = IdleCls

Init == Constructed(SessionArgs)

Next ==
    \/ \E c \in Calls, ch \in Chunks : uploadChunk(c, ch.index, ch.len)
    \/ \E c \in Calls : Resume(c)
    \/ \E c \in Calls, o \in ChunkOutcomes : PutResponse(c, o)
    \/ \E c \in Calls : RetryTimer(c)
    \/ pause
    \/ unpause
    \/ cancel

Spec == Init /\ [][Next]_vars

\* resumptions, transport answers and timers happen; calls of the caller
\* need not
FairSpec ==
    /\ Spec
    /\ \A c \in Calls : WF_vars(Resume(c))
    /\ \A c \in Calls : WF_vars(\E o \in ChunkOutcomes : PutResponse(c, o))
    /\ \A c \in Calls : WF_vars(RetryTimer(c))

\* and, besides, the caller follows every pause() with an unpause()
FairSpecUnpaused ==
    /\ FairSpec
    /\ WF_vars(upload.paused /\ unpause)

\* the same session on a transport that answers every PUT with status 500
Always500 == {o \in ChunkOutcomes : o.how # "rejectError" /\ o.status = 500}

Next500 ==
    \/ \E c \in Calls, ch \in Chunks : uploadChunk(c, ch.index, ch.len)
    \/ \E c \in Calls : Resume(c)
    \/ \E c \in Calls, o \in Always500 : PutResponse(c, o)
    \/ \E c \in Calls : RetryTimer(c)
    \/ pause
    \/ unpause
    \/ cancel

Spec500 == Init /\ [][Next500]_vars

InitProbe == Constructed(ProbeArgs)

NextProbe ==
    \/ pause
    \/ unpause
    \/ getRemoteResumeIndex
    \/ \E o \in ProbeOutcomes : ProbeResponse(o)

SpecProbe == InitProbe /\ [][NextProbe]_vars

\* uploads, pause, unpause and cancel together with the probe, on a session
\* that retries once, a caller that uploads the chunks in order (its k-th
\* call carries chunk k - 1) and a transport with a few answers for the probe
MixArgs ==
    [chunkSize : {<<>>},
     id : {<<"x">>},
     url : {<<"http://h">>},
     backoffRetryLimit : {<<1>>},
     allowSmallChunks : {FALSE}]

MixProbeOutcomes ==
    {o \in ProbeOutcomes :
        /\ o.how # "rejectResponse"
        /\ o.status \in {0, 308, 503}
        /\ o.range \in {NoRange, [form |-> "bytes", start |-> 0, end |-> 3]}}

InitMix == Constructed(MixArgs)

NextMix ==
    \/ \E c \in Calls : uploadChunk(c, c - 1, 1)
    \/ \E c \in Calls : Resume(c)
    \/ \E c \in Calls, o \in ChunkOutcomes : PutResponse(c, o)
    \/ \E c \in Calls : RetryTimer(c)
    \/ pause
    \/ unpause
    \/ cancel
    \/ getRemoteResumeIndex
    \/ \E o \in MixProbeOutcomes : ProbeResponse(o)

SpecMix == InitMix /\ [][NextMix]_vars

InitCtor ==
    /\ args \in CtorArgs
    /\ ctor = "new"
    /\ upload = NoUpload
    /\ store = EmptyStore
    /\ cancelled = FALSE
    /\ calls = [c \in Calls |-> IdleCall]
    /\ released = <<>>
    /\ probe = IdleProbe
    /\ cls = IdleCls

NextCtor == Construct

SpecCtor == InitCtor /\ [][NextCtor]_vars

InitClassify ==
    /\ cls \in [pc : {"input"}, status : Statuses, allowed : AllowLists,
                result : {[kind |-> "none"]}]
    /\ args \in SessionArgs
    /\ Constructor(args).error = "ok"
    /\ ctor = "ok"
    /\ upload = Constructor(args).this
    /\ store = EmptyStore
    /\ cancelled = FALSE
    /\ calls = [c \in Calls |-> IdleCall]
    /\ released = <<>>
    /\ probe = IdleProbe

NextClassify == Classify

SpecClassify == InitClassify /\ [][NextClassify]_vars

----------------------------------------------------------------------------
(* Properties *)

Settled(c) == calls[c].pc \in {"resolved", "rejected"}

Count(x, seq) == Cardinality({i \in DOMAIN seq : seq[i] = x})

\* C1: an uploadChunk invoked while the session is paused issues no PUT and
\* stays unsettled, waiting, until unpause() is called; one unpause() releases
\* every waiting call; and a released call goes on to settle.
C1_Step ==
    /\ \A c \in Calls :
          (upload.paused /\ calls[c].pc = "idle" /\ calls'[c].pc # "idle")
             => /\ calls'[c].pc = "waiting"
                /\ calls'[c].attempts = 0
                /\ InArray(c, upload'.unpauseHandlers)
    /\ \A c \in Calls :
          calls[c].pc = "waiting"
             => \/ calls'[c] = calls[c]
                \/ /\ unpause
                   /\ calls'[c] = [calls[c] EXCEPT !.pc = "released"]
    /\ unpause => \A c \in Calls : calls[c].pc = "waiting"
                                      => calls'[c].pc = "released"

C1_PausedUploadWaitsForUnpause ==
    /\ [][C1_Step]_vars
    /\ [](\A c \in Calls : calls[c].pc = "waiting" => calls[c].attempts = 0)
    /\ \A c \in Calls : (calls[c].pc = "released") ~> Settled(c)

\* two calls queued while paused were released and both completed
C1_Witness ==
    /\ \A c \in Calls : calls[c].gated /\ calls[c].pc = "resolved"
    /\ ~upload.paused

\* C2: on a transport that answers every PUT with status 500, one uploadChunk
\* call makes exactly backoffRetryLimit + 1 PUT attempts and then rejects
\* with UploadUnableToRecoverError: it never resolves, never schedules an
\* attempt beyond that number and never gives up before it.
C2_Always500RetriesThenRejects ==
    \A c \in Calls :
       LET n == upload.opts.backoffRetryLimit + 1 IN
       /\ calls[c].attempts <= n
       /\ calls[c].pc # "resolved"
       /\ calls[c].pc = "backoff" => calls[c].attempts < n
       /\ calls[c].pc = "rejected"
             => /\ calls[c].attempts = n
                /\ calls[c].error = "UploadUnableToRecoverError"

\* a call rejected after a first attempt and MaxRetry retries
C2_Witness ==
    \E c \in Calls :
       /\ calls[c].pc = "rejected"
       /\ upload.opts.backoffRetryLimit = MaxRetry
       /\ calls[c].attempts = MaxRetry + 1

\* C3: whatever the transport did on each attempt (any status, or an Error),
\* a rejected uploadChunk is rejected with UploadUnableToRecoverError, never
\* with the error the retry loop ended on; a call that is not rejected
\* carries no error.
C3_OnlyUnableToRecoverSurfaces ==
    \A c \in Calls :
       /\ calls[c].pc = "rejected"
             => calls[c].error = "UploadUnableToRecoverError"
       /\ calls[c].pc # "rejected" => calls[c].error = "none"

\* a call was rejected after its last attempt failed, while another resolved
C3_Witness ==
    /\ calls[1].pc = "rejected"
    /\ calls[1].attempts = upload.opts.backoffRetryLimit + 1
    /\ calls[2].pc = "resolved"

\* C4: when a PUT of uploadChunk(index, chunk) is answered with 200, 201 or
\* 308, the call resolves in that step, having recorded its checksum under
\* exactly that index and then invoked onChunkUpload once with
\* uploadedBytes = index * chunkSize + chunk length, chunkIndex = index and
\* chunkLength = chunk length; a call that has not resolved has invoked it
\* never.
C4_Step ==
    \A c \in Calls :
       (calls[c].pc = "inflight" /\ calls'[c].accepted)
          => /\ store' = addChecksum(store, calls[c].index, calls[c].checksum)
             /\ DOMAIN store' = DOMAIN store \cup {calls[c].index}
             /\ store'[calls[c].index] = calls[c].checksum
             /\ \A i \in DOMAIN store : i # calls[c].index => store'[i] = store[i]

C4_Now ==
    \A c \in Calls :
       /\ calls[c].accepted => calls[c].pc = "resolved"
       /\ calls[c].pc = "resolved"
             => calls[c].events =
                   <<[uploadedBytes |-> calls[c].index * upload.opts.chunkSize
                                           + calls[c].len,
                      chunkIndex |-> calls[c].index,
                      chunkLength |-> calls[c].len,
                      persisted |-> TRUE]>>
       /\ calls[c].pc # "resolved" => calls[c].events = <<>>

C4_AcceptedChunkIsRecordedThenReported ==
    /\ [][C4_Step]_vars
    /\ []C4_Now

\* chunk 1 of length 1 was accepted after a retry
C4_Witness ==
    \E c \in Calls :
       /\ calls[c].pc = "resolved"
       /\ calls[c].index = 1 /\ calls[c].len = 1
       /\ calls[c].attempts = 2
       /\ calls[c].events[1].uploadedBytes = MIN_CHUNK_SIZE + 1

\* C5: after cancel() the checksum store holds no entry of the session's id,
\* whatever was uploaded before; it stays empty until a later chunk is
\* recorded.
C5_CancelEmptiesStore == cancelled => DOMAIN store = {}

\* cancel() after a chunk had been uploaded and recorded
C5_Witness ==
    /\ cancelled
    /\ \E c \in Calls : calls[c].pc = "resolved"

\* C10: unpause() releases every waiter pending at the call and leaves the
\* waiter list empty; a call suspended by the gate is in the waiter list
\* exactly once, a released one is queued for resumption exactly once, and no
\* call is in both.
C10_Step ==
    unpause =>
       /\ upload'.unpauseHandlers = <<>>
       /\ \A c \in Calls :
             InArray(c, upload.unpauseHandlers)
                => calls'[c].pc = "released" /\ Count(c, released') = 1

C10_Now ==
    \A c \in Calls :
       /\ Count(c, upload.unpauseHandlers) = (IF calls[c].pc = "waiting" THEN 1 ELSE 0)
       /\ Count(c, released) = (IF calls[c].pc = "released" THEN 1 ELSE 0)

C10_UnpauseReleasesEachWaiterOnce ==
    /\ [][C10_Step]_vars
    /\ []C10_Now

\* one unpause() has just released two waiters
C10_Witness ==
    /\ Len(released) = 2
    /\ upload.unpauseHandlers = <<>>
    /\ \A c \in Calls : calls[c].gated /\ calls[c].pc = "released"

\* C6: when the probe is answered 308 with a Range header bytes=<start>-<end>,
\* getRemoteResumeIndex resolves with r = floor((end + 1) / chunkSize), that
\* is r * chunkSize <= end + 1 < (r + 1) * chunkSize; for bytes=0-524287 and
\* chunkSize 262144, r = 2.
C6_ResumeIndexIsWholeChunksReceived ==
    probe.pc = "resolved" =>
       LET e == probe.answer[1].range.end
           cs == upload.opts.chunkSize
           r == probe.value IN
       /\ r * cs <= e + 1
       /\ e + 1 < (r + 1) * cs
       /\ (e = 524287 /\ cs = 262144) => r = 2

\* the same statement for the sessions whose chunkSize is positive
C6_HoldsForPositiveChunkSize ==
    upload.opts.chunkSize > 0 => C6_ResumeIndexIsWholeChunksReceived

\* C7: getRemoteResumeIndex issues one probe PUT and never a second one; an
\* answer whose status is not 308 rejects it with the error the classifier
\* gives that status (200, 201: FileAlreadyUploadedError; 404:
\* UrlNotFoundError; 500, 502, 503, 504: UploadFailedError; any other:
\* UnknownResponseError), never with UploadUnableToRecoverError, and it
\* resolves with an index only on a 308.
C7_ProbeError(status) ==
    IF status \in {200, 201} THEN "FileAlreadyUploadedError"
    ELSE IF status = 404 THEN "UrlNotFoundError"
    ELSE IF status \in {500, 502, 503, 504} THEN "UploadFailedError"
    ELSE "UnknownResponseError"

C7_ProbeNeverRetries ==
    /\ probe.puts = (IF probe.pc = "idle" THEN 0 ELSE 1)
    /\ probe.error # "UploadUnableToRecoverError"
    /\ probe.pc \in {"resolved", "rejected"} =>
          LET o == probe.answer[1] IN
          /\ (o.how # "rejectError" /\ o.status # 308)
                => /\ probe.pc = "rejected"
                   /\ probe.error = C7_ProbeError(o.status)
          /\ probe.pc = "resolved" => o.how # "rejectError" /\ o.status = 308

\* the probe was answered 503 and rejected with UploadFailedError
C7_Witness ==
    /\ probe.pc = "rejected"
    /\ probe.answer[1].status = 503
    /\ probe.error = "UploadFailedError"
    /\ probe.puts = 1

\* C8: the classifier looks at the allow-list first: a status in the list is
\* a success; a status outside it is Incomplete for 308, AlreadyUploaded for
\* 200 and 201, UrlNotFound for 404, UploadFailed(status) for 500, 502, 503
\* and 504, and UnknownResponse for anything else.  So 200 is a success under
\* [200, 201, 308] and AlreadyUploaded under [].
C8_ClassifierTable ==
    cls.pc = "done" =>
       LET s == cls.status
           listed == \E i \in 1..Len(cls.allowed) : cls.allowed[i] = s
           k == cls.result.kind IN
       /\ listed => k = "ok"
       /\ ~listed =>
             /\ s = 308 => k = "UploadIncompleteError"
             /\ s \in {200, 201} => k = "FileAlreadyUploadedError"
             /\ s = 404 => k = "UrlNotFoundError"
             /\ s \in {500, 502, 503, 504} =>
                   cls.result = [kind |-> "UploadFailedError", status |-> s]
             /\ s \notin {308, 200, 201, 404, 500, 502, 503, 504} =>
                   k = "UnknownResponseError"
       /\ (s = 200 /\ cls.allowed = <<200, 201, 308>>) => k = "ok"
       /\ (s = 200 /\ cls.allowed = <<>>) => k = "FileAlreadyUploadedError"

\* 200 classified under the empty allow-list
C8_Witness ==
    /\ cls.pc = "done"
    /\ cls.status = 200
    /\ cls.allowed = <<>>
    /\ cls.result.kind = "FileAlreadyUploadedError"

\* C9: the constructor throws InvalidChunkSizeError when chunkSize is zero or
\* no multiple of 262144 and the override is not set; otherwise it throws
\* MissingOptionsError when id or url is absent (or empty); whenever it throws
\* there is no session; and with only id and url given it succeeds with
\* chunkSize 262144, paused false and no waiter.
C9_IsMultiple(n) == \E k \in (0 - 8)..8 : n = k * 262144

C9_ConstructorFailsFast ==
    ctor # "new" =>
       LET cs == IF args.chunkSize = <<>> THEN 262144 ELSE args.chunkSize[1]
           bad == (cs = 0 \/ ~C9_IsMultiple(cs)) /\ ~args.allowSmallChunks
           missing == args.id \in {<<>>, <<"">>} \/ args.url \in {<<>>, <<"">>} IN
       /\ bad => ctor = "InvalidChunkSizeError"
       /\ (~bad /\ missing) => ctor = "MissingOptionsError"
       /\ ctor # "ok" => upload = NoUpload
       /\ (args.chunkSize = <<>> /\ ~missing)
             => /\ ctor = "ok"
                /\ upload.exists
                /\ upload.opts.chunkSize = 262144
                /\ upload.paused = FALSE
                /\ upload.unpauseHandlers = <<>>

\* chunkSize 0 without the override was refused
C9_Witness ==
    /\ ctor = "InvalidChunkSizeError"
    /\ args.chunkSize = <<0>>
    /\ ~args.allowSmallChunks
    /\ upload = NoUpload

\* C11: pause() and unpause() are idempotent.  pause() sets paused and
\* touches nothing else, so a second pause() leaves the session as the first
\* one left it, waiter list included; unpause() with no pending waiter only
\* sets paused to false: it starts no upload and releases none.
C11_Step ==
    /\ pause =>
          /\ upload' = [upload EXCEPT !.paused = TRUE]
          /\ upload.paused => upload' = upload
          /\ UNCHANGED <<store, calls, released>>
    /\ (unpause /\ upload.unpauseHandlers = <<>>) =>
          /\ upload' = [upload EXCEPT !.paused = FALSE]
          /\ ~upload.paused => upload' = upload
          /\ UNCHANGED <<store, calls, released>>

C11_PauseAndUnpauseAreIdempotent == [][C11_Step]_vars

\* a paused session with one waiter and one call in flight: a second pause()
\* has a waiter list to preserve
C11_Witness ==
    /\ upload.paused
    /\ Len(upload.unpauseHandlers) = 1
    /\ \E c \in Calls : calls[c].pc = "inflight"

\* C12: getRemoteResumeIndex is not gated and is read-only.  Called on a
\* paused session it issues its probe PUT in the call itself and settles when
\* the transport answers, in a step that is no unpause(); and no step of the
\* probe changes the paused flag, the waiter list, the checksum accumulator,
\* the checksum store or any uploadChunk call.
C12_Step ==
    probe' # probe =>
       /\ UNCHANGED <<upload, store, calls, released>>
       /\ probe.pc # "inflight" =>
             /\ probe'.pc = "inflight"
             /\ probe'.puts = 1
             /\ probe'.whilePaused = upload.paused
       /\ probe.pc = "inflight" => probe'.pc \in {"resolved", "rejected"}

C12_ProbeIsUngatedAndReadOnly ==
    /\ [][C12_Step]_vars
    /\ [](probe.pc \in {"idle", "inflight", "resolved", "rejected"})

\* the probe was called on a paused session and resolved while the session
\* is still paused, a chunk is recorded and an uploadChunk call still waits
C12_Witness ==
    /\ probe.whilePaused
    /\ probe.pc = "resolved"
    /\ upload.paused
    /\ DOMAIN store # {}
    /\ \E c \in Calls : calls[c].pc = "waiting"

\* C13: no PUT of a chunk, first attempt or retry, is started in a state
\* where paused is true, under any interleaving of pause(), unpause() and
\* uploadChunk.  (A step starts a PUT of call c when it raises the call's
\* number of attempts.)
C13_StartsPut(c) == calls'[c].attempts = calls[c].attempts + 1

C13_NoPutStartsWhilePaused ==
    [][\A c \in Calls : C13_StartsPut(c) => ~upload.paused]_vars

\* what the code does ensure: the call itself starts no PUT on a paused
\* session; every later attempt of the call skips the gate
C13_CallItselfIsGated ==
    [][\A c \in Calls :
          (calls[c].pc = "idle" /\ C13_StartsPut(c)) => ~upload.paused]_vars

\* C14: the retry loop treats every failure alike and stops at the first
\* success.  An answer with an accepted status (200, 201, 308) resolves the
\* call at that attempt; any other answer (404, 5xx, unknown status, a thrown
\* Error) leads to another attempt while fewer than backoffRetryLimit + 1
\* were made, and rejects the call at attempt backoffRetryLimit + 1; so a
\* rejected call made exactly backoffRetryLimit + 1 attempts, whatever the
\* failures were.
C14_Step ==
    \A c \in Calls :
       LET n == upload.opts.backoffRetryLimit + 1 IN
       /\ (calls[c].pc = "inflight" /\ calls'[c] # calls[c]) =>
             /\ calls'[c].attempts = calls[c].attempts
             /\ calls'[c].pc =
                   (IF calls'[c].accepted THEN "resolved"
                    ELSE IF calls[c].attempts < n THEN "backoff"
                    ELSE "rejected")
       /\ (calls[c].pc = "backoff" /\ calls'[c] # calls[c]) =>
             /\ calls'[c].pc = "inflight"
             /\ calls'[c].attempts = calls[c].attempts + 1

C14_Now ==
    \A c \in Calls :
       LET n == upload.opts.backoffRetryLimit + 1 IN
       /\ calls[c].attempts <= n
       /\ calls[c].pc = "resolved" => calls[c].accepted /\ calls[c].attempts >= 1
       /\ calls[c].pc = "rejected" => ~calls[c].accepted /\ calls[c].attempts = n
       /\ calls[c].pc = "backoff" => ~calls[c].accepted /\ calls[c].attempts < n

C14_RetryStopsAtFirstSuccessOrBudget ==
    /\ [][C14_Step]_vars
    /\ []C14_Now

\* with one retry allowed: a call rejected after two failed attempts, and a
\* call resolved by its second attempt
C14_Witness ==
    /\ upload.opts.backoffRetryLimit = 1
    /\ calls[1].pc = "rejected" /\ calls[1].attempts = 2
    /\ calls[2].pc = "resolved" /\ calls[2].attempts = 2

\* C15: cancel() does not propagate to an uploadChunk in progress.  cancel()
\* empties the checksum store and changes nothing else: the paused flag, the
\* waiter list, the accumulator and every uploadChunk call, waiting, in flight
\* or between attempts, are as before; and after a cancel() a call goes
\* through its attempts by the same rule as without it (an accepted answer
\* resolves it, any other answer leads to the next attempt or, the budget
\* spent, to its rejection).
C15_Step ==
    /\ cancel =>
          /\ store' = EmptyStore
          /\ UNCHANGED <<upload, calls, released>>
    /\ cancelled => C14_Step

C15_CancelDoesNotReachCallsInProgress == [][C15_Step]_vars

\* call 1 was in progress when cancel() was called and resolved after it:
\* both calls resolved, the entry of call 2 was cleared by the cancel() and
\* the entry of call 1, invoked before call 2, was recorded after it
C15_Witness ==
    /\ calls[1].pc = "resolved"
    /\ calls[2].pc = "resolved"
    /\ calls[1].index # calls[2].index
    /\ DOMAIN store = {calls[1].index}
    /\ calls[1].attempts = 2

\* C16: the checksum store is append-only between cancellations and records
\* only acknowledged chunks.  A step that changes the store is a cancel(),
\* which empties it, or the step in which a PUT of an uploadChunk(i, ...) call
\* is answered with an accepted status, which adds or replaces the entry of i
\* and keeps every other entry; the step in which a call rejects leaves the
\* store alone, and a rejected call has not invoked onChunkUpload; every
\* entry belongs to a call that resolved on an accepted answer.
C16_Step ==
    /\ store' # store =>
          \/ cancelled' /\ store' = EmptyStore
          \/ \E c \in Calls :
                /\ calls[c].pc = "inflight"
                /\ calls'[c].accepted
                /\ calls'[c].pc = "resolved"
                /\ DOMAIN store' = DOMAIN store \cup {calls[c].index}
                /\ store'[calls[c].index] = calls[c].checksum
                /\ \A i \in DOMAIN store \ {calls[c].index} : store'[i] = store[i]
    /\ \A c \in Calls :
          (calls[c].pc # "rejected" /\ calls'[c].pc = "rejected") => store' = store

C16_Now ==
    /\ \A i \in DOMAIN store :
          \E c \in Calls : /\ calls[c].pc = "resolved"
                            /\ calls[c].accepted
                            /\ calls[c].index = i
                            /\ calls[c].checksum = store[i]
    /\ \A c \in Calls : calls[c].pc = "rejected" => calls[c].events = <<>>

C16_StoreHoldsOnlyAcknowledgedChunks ==
    /\ [][C16_Step]_vars
    /\ []C16_Now

\* chunk 0 was rejected after its retries and chunk 1 was acknowledged: the
\* store holds chunk 1 only
C16_Witness ==
    /\ calls[1].pc = "rejected" /\ calls[1].index = 0 /\ calls[1].attempts = 2
    /\ calls[2].pc = "resolved" /\ calls[2].index = 1
    /\ DOMAIN store = {1}

\* C17: every session constructed without the small-chunk override has a
\* chunkSize that is a positive integer multiple of 262144, whatever integer
\* was passed to the constructor, negative values included.
C17_ChunkSizeIsPositiveMultiple ==
    (ctor = "ok" /\ ~args.allowSmallChunks) =>
       /\ upload.opts.chunkSize > 0
       /\ \E k \in 1..8 : upload.opts.chunkSize = k * 262144

\* the second half of the statement, which holds: no operation of a session
\* changes its options
C17_ChunkSizeNeverChanges == [][upload'.opts = upload.opts]_vars

\* C18: each uploadChunk call folds its chunk into the accumulator exactly
\* once, after passing the Pause Gate and before its first PUT, however many
\* retries follow, and the fold is not undone when the call rejects: the
\* accumulator holds one fold for each call that passed the gate (in flight,
\* between attempts, resolved or rejected) and none for a call not made or
\* still held by the gate, and the checksum of a call is the digest of the
\* folds up to its own.
C18_Passed(c) == calls[c].pc \in {"inflight", "backoff", "resolved", "rejected"}

C18_EachPassedCallFoldsOnce ==
    /\ Len(upload.spark) = Cardinality({c \in Calls : C18_Passed(c)})
    /\ \A c \in Calls :
          /\ Count(c, upload.spark) = (IF C18_Passed(c) THEN 1 ELSE 0)
          /\ C18_Passed(c) <=> calls[c].attempts >= 1
          /\ C18_Passed(c) =>
                \E k \in 1..Len(upload.spark) :
                   /\ upload.spark[k] = c
                   /\ calls[c].checksum = SubSeq(upload.spark, 1, k)

\* two calls passed the gate; the first was rejected after a retry, the
\* second resolved after a retry: the accumulator holds two folds
C18_Witness ==
    /\ calls[1].pc = "rejected" /\ calls[1].attempts = 2
    /\ calls[2].pc = "resolved" /\ calls[2].attempts = 2
    /\ Len(upload.spark) = 2

\* C19: if the caller invokes uploadChunk with strictly increasing,
\* contiguous chunk indices (its k-th call carries chunk k - 1), the
\* accumulator is fed the chunks in increasing index order, under every
\* interleaving of pause(), unpause() and uploadChunk, a call made right
\* after unpause() and before the released waiters resumed included.
C19_CallerInOrder ==
    \A c \in Calls : calls[c].pc # "idle" => calls[c].index = c - 1

C19_FoldedInOrder ==
    \A i, j \in 1..Len(upload.spark) :
       i < j => calls[upload.spark[i]].index < calls[upload.spark[j]].index

C19_AccumulatorFedInIndexOrder == C19_CallerInOrder => C19_FoldedInOrder

\* what the code does ensure: calls that were all held by the gate, or all
\* let through by it, fold in the order in which they were made
C19_SameGateSameOrder ==
    (C19_CallerInOrder /\ \A c, d \in Calls : calls[c].gated = calls[d].gated)
       => C19_FoldedInOrder

\* C20: every uploadChunk call eventually settles (resolves or rejects),
\* provided the transport answers every PUT, every backoff delay elapses and
\* every pause() is followed by an unpause().  No wakeup is lost: a call held
\* by the gate is in the waiter list of a paused session from the step that
\* read the flag on, so the next unpause() releases it.
C20_NoLostWakeup ==
    \A c \in Calls :
       calls[c].pc = "waiting" =>
          upload.paused /\ InArray(c, upload.unpauseHandlers)

C20_EveryCallSettles ==
    /\ []C20_NoLostWakeup
    /\ \A c \in Calls : (calls[c].pc # "idle") ~> Settled(c)

\* a call held by the gate was released and rejected after its retries, and
\* a call made on the unpaused session resolved
C20_Witness ==
    /\ calls[1].gated /\ calls[1].pc = "rejected" /\ calls[1].attempts = 2
    /\ ~calls[2].gated /\ calls[2].pc = "resolved"

====
